---- MODULE Spec2Model ----
(***************************************************************************)
(* Model of gns3server/modules/dynamips/nodes/frame_relay_switch.py:       *)
(* the FrameRelaySwitch class, its class-level identifier list, the        *)
(* hypervisor's device list, the port -> NIO bindings and the virtual      *)
(* circuit table.  Every method is one action; each call to                *)
(* hypervisor.send either returns or raises, chosen by the environment.    *)
(*                                                                         *)
(* Model of gns3server/modules/virtualbox/__init__.py: the VirtualBox      *)
(* module's registry of VM instances, its list of allocated UDP ports and  *)
(* its UDP port range.  Every route is one action.                         *)
(***************************************************************************)
EXTENDS Integers, Sequences, FiniteSets, TLC

\* range(1, 4097) of __init__, scaled down: identifiers are 1..MaxInstances
MaxInstances == 2

\* the hypervisors a switch can be created on (each has its own device list)
Hypervisors == {"h1"}
\* the FrameRelaySwitch objects the caller can hold (object identities)
Switches == {"s1", "s2"}
\* the switches whose ports and circuits the caller drives
Wired == {"s1"}
\* switch names, as strings of characters (one holds a space)
Names == {<<"A">>, <<"B", " ">>}
\* port numbers, DLCIs and NIOs the caller uses
Ports == {0, 1}
Dlcis == {16}
Nios == {"nioA", "nioB"}

\* udp_start_port_range, the default of VirtualBox.__init__
UdpStart == 35001
\* the length of the UDP port range (500 ports, 35001..35500, in the source)
RangeLen == 2
\* the UDP port ranges a virtualbox.settings request sets
UdpRanges == {<<UdpStart, UdpStart + RangeLen - 1>>, <<UdpStart + 1, UdpStart + RangeLen>>}
\* the local ports a virtualbox.add_nio request names
UdpPorts == UdpStart..(UdpStart + RangeLen)
\* the ports other processes may hold on the host when a port is looked for
HostBusy == {{}, {UdpStart}}
\* the adapters of a VM a request names
VmPorts == {0, 1}
\* the VMs whose adapters the requests bind NIOs to
NioVms == {1}
\* the NIO types a virtualbox.add_nio request names
NioTypes == {"nio_udp", "nio_tap"}
\* the threads that call into the modules at the same time
Threads == {"t1", "t2"}
\* the ingress DLCIs of the circuits of a switch that carries several per port
CircuitDlcis == {16, 17}
\* the data_link_type arguments of start_capture (the default, and a bare tag)
DataLinkTypes == {<<"D", "L", "T", "_", "F", "R", "E", "L", "A", "Y">>,
                  <<"p", "p", "p">>}
\* the output_file argument of start_capture
OutputFiles == {<<"c", "/", "f">>}
\* how os.makedirs(os.path.dirname(output_file)) ends
MakedirsOutcomes == {"created", "FileExistsError", "OSError"}

VARIABLES
    instances,  \* FrameRelaySwitch._instances, the class-level list of held ids
    devices,    \* hypervisor.devices, per hypervisor
    objs,       \* the FrameRelaySwitch objects whose __init__ has returned
    sw,         \* per object: _id, _name, _hypervisor, _nios, _mapping
    last,       \* the last call: its arguments, its outcome and what it sent
    vbox_instances,       \* VirtualBox._vbox_instances: VM id -> VM (its port -> NIO bindings)
    vm_instances,         \* VirtualBoxVM._instances, the held VM ids
    allocated_udp_ports,  \* VirtualBox._allocated_udp_ports
    udp_start_port_range, \* VirtualBox._udp_start_port_range
    udp_end_port_range,   \* VirtualBox._udp_end_port_range
    reply,                \* the last request: its parameters and the response sent
    nio_filters,          \* per NIO: its input_filter and output_filter
    calls                 \* per thread: the call it is in, between its test and its record

frswVars == <<instances, devices, objs, sw, last>>
vboxVars == <<vbox_instances, vm_instances, allocated_udp_ports,
              udp_start_port_range, udp_end_port_range, reply>>
vars == <<frswVars, vboxVars, nio_filters, calls>>

----------------------------------------------------------------------------
(* Python containers *)

\* x in list
InList(x, list) == \E i \in 1..Len(list) : list[i] = x

\* the index of the first occurrence of x in list (x is in list)
IndexOf(x, list) == CHOOSE i \in 1..Len(list) :
                        list[i] = x /\ \A j \in 1..(i - 1) : list[j] # x

\* list.pop() in place of list.remove(x): drops the last element
ListRemoveLast(list, x) == SubSeq(list, 1, Len(list) - 1)

\* list.remove(x) for x in list: drops the first occurrence
ListRemove(list, x) ==
    LET i == IndexOf(x, list)
    IN  SubSeq(list, 1, i - 1) \o SubSeq(list, i + 1, Len(list))

\* {}
EmptyDict == [k \in {} |-> 0]

\* d[k] = v
DictSet(d, k, v) == [x \in DOMAIN d \cup {k} |-> IF x = k THEN v ELSE d[x]]

\* del d[k] for k in d
DictDel(d, k) == [x \in DOMAIN d \ {k} |-> d[x]]

\* '"' + name + '"'
Quote(name) == <<"\"">> \o name \o <<"\"">>

\* self._name[1:-1]
name_getter(qname) == SubSeq(qname, 2, Len(qname) - 1)

----------------------------------------------------------------------------
(* The local state a method works on, and what a call leaves behind *)

Local == [instances |-> instances, devices |-> devices, objs |-> objs, sw |-> sw]

\* an object whose __init__ has not run
NoSwitch == [id |-> 0, name |-> <<>>, hypervisor |-> "none",
             nios |-> EmptyDict, mapping |-> EmptyDict]

\* one hypervisor.send: the command line and the local state when it was sent
Sent(cmd, s) == <<[cmd |-> cmd, local |-> s]>>

\* the outcome of a call: the local state it leaves, how it ended, what it
\* returned and the commands it sent
Outcome(s, result, ret, sends) ==
    [local |-> s, result |-> result, ret |-> ret, sends |-> sends]

NoArgs == [self |-> "none", name |-> <<>>, hypervisor |-> "none", nio |-> "none",
           port1 |-> -1, dlci1 |-> -1, port2 |-> -1, dlci2 |-> -1]

\* the call returns: its outcome becomes the state
Return(op, args, out) ==
    /\ instances' = out.local.instances
    /\ devices' = out.local.devices
    /\ objs' = out.local.objs
    /\ sw' = out.local.sw
    /\ last' = [op |-> op, args |-> args, result |-> out.result,
                ret |-> out.ret, sends |-> out.sends]
    /\ UNCHANGED <<vboxVars, nio_filters, calls>>

----------------------------------------------------------------------------
(* FrameRelaySwitch *)

\* for identifier in range(1, 4097): if identifier not in self._instances
RECURSIVE ScanId(_, _)
ScanId(identifier, list) ==
    IF identifier > MaxInstances THEN 0
    ELSE IF ~InList(identifier, list) THEN identifier
    ELSE ScanId(identifier + 1, list)

\* the scan without its 'not in self._instances' test
FindIdNoMembershipTest(list) == IF MaxInstances >= 1 THEN 1 ELSE 0

\* the scan over range(1, 4098): one identifier too many
FindIdPastEnd(list) ==
    IF \E i \in 1..(MaxInstances + 1) : ~InList(i, list)
    THEN CHOOSE i \in 1..(MaxInstances + 1) :
             ~InList(i, list) /\ \A j \in 1..(i - 1) : InList(j, list)
    ELSE 0

\* the scan over reversed(range(1, 4097)): the highest free identifier
FindIdHighest(list) ==
    IF \E i \in 1..MaxInstances : ~InList(i, list)
    THEN CHOOSE i \in 1..MaxInstances :
             ~InList(i, list) /\ \A j \in (i + 1)..MaxInstances : InList(j, list)
    ELSE 0

FindId(list) == ScanId(1, list)

\* FrameRelaySwitch(hypervisor, name), building object self
FrameRelaySwitch_init(s, self, hypervisor, name, sendOk) ==
    LET id == FindId(s.instances)
    IN  IF id = 0
        THEN Outcome(s, "MaxInstances", "none", <<>>)
        ELSE LET s1 == [s EXCEPT !.instances = Append(@, id)]
                 qname == Quote(name)
                 sends == Sent(<<"frsw", "create", qname>>, s1)
             IN  IF ~sendOk
                 THEN Outcome(s1, "ChannelError", "none", sends)
                 ELSE Outcome([s1 EXCEPT
                                  !.devices[hypervisor] = Append(@, self),
                                  !.objs = @ \cup {self},
                                  !.sw[self] = [id |-> id, name |-> qname,
                                                hypervisor |-> hypervisor,
                                                nios |-> EmptyDict,
                                                mapping |-> EmptyDict]],
                              "ok", self, sends)

\* the setter storing the new name before the command is sent
name_setter_eager(s, self, new_name, sendOk) ==
    LET qname == Quote(new_name)
        s1 == [s EXCEPT !.sw[self].name = qname]
        sends == Sent(<<"frsw", "rename", s.sw[self].name, qname>>, s1)
    IN  IF ~sendOk
        THEN Outcome(s1, "ChannelError", "none", sends)
        ELSE Outcome(s1, "ok", "none", sends)

\* self.name = new_name
name_setter(s, self, new_name, sendOk) ==
    LET qname == Quote(new_name)
        sends == Sent(<<"frsw", "rename", s.sw[self].name, qname>>, s)
    IN  IF ~sendOk
        THEN Outcome(s, "ChannelError", "none", sends)
        ELSE Outcome([s EXCEPT !.sw[self].name = qname], "ok", "none", sends)

\* delete() removing the switch and its id before the command is sent
delete_eager(s, self, sendOk) ==
    LET h == s.sw[self].hypervisor
        id == s.sw[self].id
    IN  IF ~InList(self, s.devices[h]) \/ ~InList(id, s.instances)
        THEN Outcome(s, "ValueError", "none", <<>>)
        ELSE LET s1 == [s EXCEPT !.devices[h] = ListRemove(@, self),
                                 !.instances = ListRemove(@, id)]
                 sends == Sent(<<"frsw", "delete", s.sw[self].name>>, s1)
             IN  IF ~sendOk
                 THEN Outcome(s1, "ChannelError", "none", sends)
                 ELSE Outcome(s1, "ok", "none", sends)

\* self.delete()
delete(s, self, sendOk) ==
    LET h == s.sw[self].hypervisor
        id == s.sw[self].id
        sends == Sent(<<"frsw", "delete", s.sw[self].name>>, s)
    IN  IF ~sendOk
        THEN Outcome(s, "ChannelError", "none", sends)
        ELSE IF ~InList(self, s.devices[h])
        THEN Outcome(s, "ValueError", "none", sends)
        ELSE LET s1 == [s EXCEPT !.devices[h] = ListRemove(@, self)]
             IN  IF ~InList(id, s1.instances)
                 THEN Outcome(s1, "ValueError", "none", sends)
                 ELSE Outcome([s1 EXCEPT !.instances = ListRemove(@, id)],
                              "ok", "none", sends)

\* self.has_port(port)
has_port(s, self, port) == port \in DOMAIN s.sw[self].nios

\* add_nio without its 'port in self._nios' test
add_nio_overwrite(s, self, nio, port) ==
    Outcome([s EXCEPT !.sw[self].nios = DictSet(@, port, nio)], "ok", "none", <<>>)

\* self.add_nio(nio, port)
add_nio(s, self, nio, port) ==
    IF port \in DOMAIN s.sw[self].nios
    THEN Outcome(s, "PortNotFree", "none", <<>>)
    ELSE Outcome([s EXCEPT !.sw[self].nios = DictSet(@, port, nio)],
                 "ok", "none", <<>>)

\* remove_nio with self._nios.clear() in place of del self._nios[port]
remove_nio_clear(s, self, port) ==
    IF port \notin DOMAIN s.sw[self].nios
    THEN Outcome(s, "PortNotAllocated", "none", <<>>)
    ELSE LET nio == s.sw[self].nios[port]
         IN  Outcome([s EXCEPT !.sw[self].nios = EmptyDict], "ok", nio, <<>>)

\* self.remove_nio(port)
remove_nio(s, self, port) ==
    IF port \notin DOMAIN s.sw[self].nios
    THEN Outcome(s, "PortNotAllocated", "none", <<>>)
    ELSE LET nio == s.sw[self].nios[port]
         IN  Outcome([s EXCEPT !.sw[self].nios = DictDel(@, port)],
                     "ok", nio, <<>>)

\* map_vc testing port1 only and reading the egress NIO with self._nios.get(port2)
map_vc_ingress_only(s, self, port1, dlci1, port2, dlci2, sendOk) ==
    IF port1 \notin DOMAIN s.sw[self].nios
    THEN Outcome(s, "PortNotAllocated", "none", <<>>)
    ELSE LET nio1 == s.sw[self].nios[port1]
             nio2 == IF port2 \in DOMAIN s.sw[self].nios
                     THEN s.sw[self].nios[port2] ELSE "none"
             sends == Sent(<<"frsw", "create_vc", s.sw[self].name,
                             nio1, dlci1, nio2, dlci2>>, s)
         IN  IF ~sendOk
             THEN Outcome(s, "ChannelError", "none", sends)
             ELSE Outcome([s EXCEPT !.sw[self].mapping =
                                 DictSet(@, <<port1, dlci1>>, <<port2, dlci2>>)],
                          "ok", "none", sends)

\* map_vc with self._mapping.setdefault(...): an existing entry is kept
map_vc_first_wins(s, self, port1, dlci1, port2, dlci2, sendOk) ==
    IF port1 \notin DOMAIN s.sw[self].nios \/ port2 \notin DOMAIN s.sw[self].nios
    THEN Outcome(s, "PortNotAllocated", "none", <<>>)
    ELSE LET nio1 == s.sw[self].nios[port1]
             nio2 == s.sw[self].nios[port2]
             sends == Sent(<<"frsw", "create_vc", s.sw[self].name,
                             nio1, dlci1, nio2, dlci2>>, s)
         IN  IF ~sendOk
             THEN Outcome(s, "ChannelError", "none", sends)
             ELSE IF <<port1, dlci1>> \in DOMAIN s.sw[self].mapping
             THEN Outcome(s, "ok", "none", sends)
             ELSE Outcome([s EXCEPT !.sw[self].mapping =
                                 DictSet(@, <<port1, dlci1>>, <<port2, dlci2>>)],
                          "ok", "none", sends)

\* map_vc keeping one circuit per ingress port: the other DLCIs of port1 are dropped
map_vc_one_per_port(s, self, port1, dlci1, port2, dlci2, sendOk) ==
    IF port1 \notin DOMAIN s.sw[self].nios \/ port2 \notin DOMAIN s.sw[self].nios
    THEN Outcome(s, "PortNotAllocated", "none", <<>>)
    ELSE LET nio1 == s.sw[self].nios[port1]
             nio2 == s.sw[self].nios[port2]
             sends == Sent(<<"frsw", "create_vc", s.sw[self].name,
                             nio1, dlci1, nio2, dlci2>>, s)
             kept == {k \in DOMAIN s.sw[self].mapping : k[1] # port1}
         IN  IF ~sendOk
             THEN Outcome(s, "ChannelError", "none", sends)
             ELSE Outcome([s EXCEPT !.sw[self].mapping =
                                 DictSet([k \in kept |-> @[k]],
                                         <<port1, dlci1>>, <<port2, dlci2>>)],
                          "ok", "none", sends)

\* self.map_vc(port1, dlci1, port2, dlci2)
map_vc(s, self, port1, dlci1, port2, dlci2, sendOk) ==
    IF port1 \notin DOMAIN s.sw[self].nios \/ port2 \notin DOMAIN s.sw[self].nios
    THEN Outcome(s, "PortNotAllocated", "none", <<>>)
    ELSE LET nio1 == s.sw[self].nios[port1]
             nio2 == s.sw[self].nios[port2]
             sends == Sent(<<"frsw", "create_vc", s.sw[self].name,
                             nio1, dlci1, nio2, dlci2>>, s)
         IN  IF ~sendOk
             THEN Outcome(s, "ChannelError", "none", sends)
             ELSE Outcome([s EXCEPT !.sw[self].mapping =
                                 DictSet(@, <<port1, dlci1>>, <<port2, dlci2>>)],
                          "ok", "none", sends)

\* unmap_vc with del self._mapping[(port2, dlci2)]: the egress pair as the key
unmap_vc_egress_key(s, self, port1, dlci1, port2, dlci2, sendOk) ==
    IF port1 \notin DOMAIN s.sw[self].nios \/ port2 \notin DOMAIN s.sw[self].nios
    THEN Outcome(s, "PortNotAllocated", "none", <<>>)
    ELSE LET nio1 == s.sw[self].nios[port1]
             nio2 == s.sw[self].nios[port2]
             sends == Sent(<<"frsw", "delete_vc", s.sw[self].name,
                             nio1, dlci1, nio2, dlci2>>, s)
         IN  IF ~sendOk
             THEN Outcome(s, "ChannelError", "none", sends)
             ELSE IF <<port2, dlci2>> \notin DOMAIN s.sw[self].mapping
             THEN Outcome(s, "KeyError", "none", sends)
             ELSE Outcome([s EXCEPT !.sw[self].mapping =
                                 DictDel(@, <<port2, dlci2>>)],
                          "ok", "none", sends)

\* self.unmap_vc(port1, dlci1, port2, dlci2)
unmap_vc(s, self, port1, dlci1, port2, dlci2, sendOk) ==
    IF port1 \notin DOMAIN s.sw[self].nios \/ port2 \notin DOMAIN s.sw[self].nios
    THEN Outcome(s, "PortNotAllocated", "none", <<>>)
    ELSE LET nio1 == s.sw[self].nios[port1]
             nio2 == s.sw[self].nios[port2]
             sends == Sent(<<"frsw", "delete_vc", s.sw[self].name,
                             nio1, dlci1, nio2, dlci2>>, s)
         IN  IF ~sendOk
             THEN Outcome(s, "ChannelError", "none", sends)
             ELSE IF <<port1, dlci1>> \notin DOMAIN s.sw[self].mapping
             THEN Outcome(s, "KeyError", "none", sends)
             ELSE Outcome([s EXCEPT !.sw[self].mapping =
                                 DictDel(@, <<port1, dlci1>>)],
                          "ok", "none", sends)

----------------------------------------------------------------------------
(* The calls the caller makes *)

\* the object a new FrameRelaySwitch(...) builds
NewObject == CHOOSE o \in Switches \ objs : TRUE

Create ==
    /\ objs # Switches
    /\ \E h \in Hypervisors, n \in Names, sendOk \in BOOLEAN :
          Return("create", [NoArgs EXCEPT !.hypervisor = h, !.name = n],
                 FrameRelaySwitch_init(Local, NewObject, h, n, sendOk))

Rename ==
    \E self \in objs, n \in Names, sendOk \in BOOLEAN :
        Return("rename", [NoArgs EXCEPT !.self = self, !.name = n],
               name_setter(Local, self, n, sendOk))

Delete ==
    \E self \in objs, sendOk \in BOOLEAN :
        Return("delete", [NoArgs EXCEPT !.self = self],
               delete(Local, self, sendOk))

AddNio ==
    \E self \in objs \cap Wired, nio \in Nios, port \in Ports :
        Return("add_nio", [NoArgs EXCEPT !.self = self, !.nio = nio, !.port1 = port],
               add_nio(Local, self, nio, port))

RemoveNio ==
    \E self \in objs \cap Wired, port \in Ports :
        Return("remove_nio", [NoArgs EXCEPT !.self = self, !.port1 = port],
               remove_nio(Local, self, port))

MapVc ==
    \E self \in objs \cap Wired, p1 \in Ports, d1 \in Dlcis, p2 \in Ports, d2 \in Dlcis,
       sendOk \in BOOLEAN :
        Return("map_vc", [NoArgs EXCEPT !.self = self, !.port1 = p1, !.dlci1 = d1,
                                         !.port2 = p2, !.dlci2 = d2],
               map_vc(Local, self, p1, d1, p2, d2, sendOk))

UnmapVc ==
    \E self \in objs \cap Wired, p1 \in Ports, d1 \in Dlcis, p2 \in Ports, d2 \in Dlcis,
       sendOk \in BOOLEAN :
        Return("unmap_vc", [NoArgs EXCEPT !.self = self, !.port1 = p1, !.dlci1 = d1,
                                           !.port2 = p2, !.dlci2 = d2],
               unmap_vc(Local, self, p1, d1, p2, d2, sendOk))

NoParams == [id |-> 0, port |-> -1, type |-> "none", lport |-> 0,
             busy |-> {}, range |-> <<>>]

\* a NIO filter slot (name, options) with nothing bound: (None, None)
NoFilter == [name |-> "None", options |-> <<>>]

\* a thread that is in no call
Idle == [pc |-> "idle", kind |-> "none", value |-> 0, self |-> "none"]

Init ==
    /\ calls = [t \in Threads |-> Idle]
    /\ nio_filters = [n \in Nios |-> [input |-> NoFilter, output |-> NoFilter]]
    /\ vbox_instances = EmptyDict
    /\ vm_instances = {}
    /\ allocated_udp_ports = <<>>
    /\ udp_start_port_range = UdpStart
    /\ udp_end_port_range = UdpStart + RangeLen - 1
    /\ reply = [op |-> "init", params |-> NoParams, result |-> "ok", lport |-> 0]
    /\ instances = <<>>
    /\ devices = [h \in Hypervisors |-> <<>>]
    /\ objs = {}
    /\ sw = [o \in Switches |-> NoSwitch]
    /\ last = [op |-> "init", args |-> NoArgs, result |-> "ok", ret |-> "none",
               sends |-> <<>>]

Next ==
    \/ Create
    \/ Rename
    \/ Delete
    \/ AddNio
    \/ RemoveNio
    \/ MapVc
    \/ UnmapVc

Spec == Init /\ [][Next]_vars

----------------------------------------------------------------------------
(* VirtualBox module *)

VLocal == [vbox_instances |-> vbox_instances, vm_instances |-> vm_instances,
           allocated_udp_ports |-> allocated_udp_ports,
           udp_start_port_range |-> udp_start_port_range,
           udp_end_port_range |-> udp_end_port_range]

\* what a route leaves: the module state, the response (True/a dict: "ok",
\* or the custom error sent) and the lport of the response
Response(v, result, lport) == [local |-> v, result |-> result, lport |-> lport]

\* the route has run: its outcome becomes the state
Respond(op, params, out) ==
    /\ vbox_instances' = out.local.vbox_instances
    /\ vm_instances' = out.local.vm_instances
    /\ allocated_udp_ports' = out.local.allocated_udp_ports
    /\ udp_start_port_range' = out.local.udp_start_port_range
    /\ udp_end_port_range' = out.local.udp_end_port_range
    /\ reply' = [op |-> op, params |-> params, result |-> out.result,
                 lport |-> out.lport]
    /\ UNCHANGED <<frswVars, nio_filters, calls>>

\* find_unused_port(start, end, host, "UDP", ignore_ports): the first port of
\* start..end that is not ignored and not bound on the host, 0 for the
\* exception raised when there is none
find_unused_port(start_port, end_port, ignore_ports, busy) ==
    LET free == {p \in start_port..end_port : ~InList(p, ignore_ports) /\ p \notin busy}
    IN  IF free = {} THEN 0
        ELSE CHOOSE p \in free : \A q \in free : p <= q

\* VirtualBoxVM(...): the identifier it takes, the lowest of 1..MaxInstances
\* that is not held, 0 when every one is held
VirtualBoxVM_id(held) ==
    IF \A i \in 1..MaxInstances : i \in held THEN 0
    ELSE CHOOSE i \in 1..MaxInstances :
             i \notin held /\ \A j \in 1..(i - 1) : j \in held

\* vbox_instance.port_add_nio_binding(port, nio): TRUE when it raises
port_add_nio_binding_raises(vm, port) == port \in DOMAIN vm.nios

\* vbox_instance.port_remove_nio_binding(port): TRUE when it raises
port_remove_nio_binding_raises(vm, port) == port \notin DOMAIN vm.nios

\* self.get_vbox_instance(vbox_id) finds the VM
get_vbox_instance(v, vbox_id) == vbox_id \in DOMAIN v.vbox_instances

\* virtualbox.reset; deleteOk: no vbox_instance.delete() raises
reset(v, deleteOk) ==
    IF DOMAIN v.vbox_instances # {} /\ ~deleteOk
    THEN Response(v, "VirtualBoxError", 0)
    ELSE Response([v EXCEPT !.vm_instances = {},
                            !.vbox_instances = EmptyDict,
                            !.allocated_udp_ports = <<>>], "ok", 0)

\* virtualbox.settings; range: <<>> when the request has no UDP range
settings_clears(v, isNone, moveOk, range) ==
    IF isNone THEN Response(v, "ParamError", 0)
    ELSE IF ~moveOk THEN Response(v, "ok", 0)
    ELSE IF range # <<>>
    THEN Response([v EXCEPT !.udp_start_port_range = range[1],
                            !.udp_end_port_range = range[2],
                            !.allocated_udp_ports = <<>>], "ok", 0)
    ELSE Response(v, "ok", 0)

settings(v, isNone, moveOk, range) ==
    IF isNone THEN Response(v, "ParamError", 0)
    ELSE IF ~moveOk THEN Response(v, "ok", 0)
    ELSE IF range # <<>>
    THEN Response([v EXCEPT !.udp_start_port_range = range[1],
                            !.udp_end_port_range = range[2]], "ok", 0)
    ELSE Response(v, "ok", 0)

\* virtualbox.create; ctorOk: VirtualBoxVM(...) does not raise for another reason
vbox_create(v, ctorOk) ==
    LET id == VirtualBoxVM_id(v.vm_instances)
    IN  IF id = 0 \/ ~ctorOk
        THEN Response(v, "VirtualBoxError", 0)
        ELSE Response([v EXCEPT !.vm_instances = @ \cup {id},
                                !.vbox_instances = DictSet(@, id, [nios |-> EmptyDict])],
                      "ok", 0)

\* virtualbox.delete removing the entry before clean_delete() is tried
vbox_delete_entry_first(v, vbox_id, deleteOk) ==
    IF ~get_vbox_instance(v, vbox_id) THEN Response(v, "NoSuchVM", 0)
    ELSE IF ~deleteOk
    THEN Response([v EXCEPT !.vbox_instances = DictDel(@, vbox_id)],
                  "VirtualBoxError", 0)
    ELSE Response([v EXCEPT !.vm_instances = @ \ {vbox_id},
                            !.vbox_instances = DictDel(@, vbox_id)], "ok", 0)

\* virtualbox.delete; deleteOk: vbox_instance.clean_delete() does not raise
vbox_delete(v, vbox_id, deleteOk) ==
    IF ~get_vbox_instance(v, vbox_id) THEN Response(v, "NoSuchVM", 0)
    ELSE IF ~deleteOk THEN Response(v, "VirtualBoxError", 0)
    ELSE Response([v EXCEPT !.vm_instances = @ \ {vbox_id},
                            !.vbox_instances = DictDel(@, vbox_id)], "ok", 0)

\* allocate_udp_port without ignore_ports=self._allocated_udp_ports
allocate_udp_port_no_ignore(v, vbox_id, busy) ==
    IF ~get_vbox_instance(v, vbox_id) THEN Response(v, "NoSuchVM", 0)
    ELSE LET port == find_unused_port(v.udp_start_port_range, v.udp_end_port_range,
                                      <<>>, busy)
         IN  IF port = 0 THEN Response(v, "NoPortAvailable", 0)
             ELSE Response([v EXCEPT !.allocated_udp_ports = Append(@, port)],
                           "ok", port)

\* allocate_udp_port appending before the search result is tested
allocate_udp_port_append_first(v, vbox_id, busy) ==
    IF ~get_vbox_instance(v, vbox_id) THEN Response(v, "NoSuchVM", 0)
    ELSE LET port == find_unused_port(v.udp_start_port_range, v.udp_end_port_range,
                                      v.allocated_udp_ports, busy)
             v1 == [v EXCEPT !.allocated_udp_ports =
                        Append(@, IF port = 0 THEN v.udp_end_port_range ELSE port)]
         IN  IF port = 0 THEN Response(v1, "NoPortAvailable", 0)
             ELSE Response(v1, "ok", port)

\* virtualbox.allocate_udp_port
allocate_udp_port(v, vbox_id, busy) ==
    IF ~get_vbox_instance(v, vbox_id) THEN Response(v, "NoSuchVM", 0)
    ELSE LET port == find_unused_port(v.udp_start_port_range, v.udp_end_port_range,
                                      v.allocated_udp_ports, busy)
         IN  IF port = 0 THEN Response(v, "NoPortAvailable", 0)
             ELSE Response([v EXCEPT !.allocated_udp_ports = Append(@, port)],
                           "ok", port)

\* virtualbox.add_nio; connectOk: the UDP socket connects to rhost:rport
vbox_add_nio(v, vbox_id, port, type, lport, connectOk) ==
    IF ~get_vbox_instance(v, vbox_id) THEN Response(v, "NoSuchVM", 0)
    ELSE IF type = "nio_udp" /\ ~connectOk THEN Response(v, "VirtualBoxError", 0)
    ELSE IF type # "nio_udp" THEN Response(v, "VirtualBoxError", 0)
    ELSE IF port_add_nio_binding_raises(v.vbox_instances[vbox_id], port)
    THEN Response(v, "VirtualBoxError", 0)
    ELSE Response([v EXCEPT !.vbox_instances[vbox_id].nios =
                        DictSet(@, port, [type |-> "nio_udp", lport |-> lport])],
                  "ok", 0)

\* virtualbox.delete_nio
vbox_delete_nio(v, vbox_id, port) ==
    IF ~get_vbox_instance(v, vbox_id) THEN Response(v, "NoSuchVM", 0)
    ELSE IF port_remove_nio_binding_raises(v.vbox_instances[vbox_id], port)
    THEN Response(v, "VirtualBoxError", 0)
    ELSE LET nio == v.vbox_instances[vbox_id].nios[port]
             v1 == [v EXCEPT !.vbox_instances[vbox_id].nios = DictDel(@, port)]
         IN  IF nio.type = "nio_udp" /\ InList(nio.lport, v1.allocated_udp_ports)
             THEN Response([v1 EXCEPT !.allocated_udp_ports = ListRemove(@, nio.lport)],
                           "ok", 0)
             ELSE Response(v1, "ok", 0)

\* the VM ids a request names
VmIds == 1..MaxInstances

VboxReset ==
    \E deleteOk \in BOOLEAN :
        Respond("reset", NoParams, reset(VLocal, deleteOk))

VboxSettings ==
    \E isNone \in BOOLEAN, moveOk \in BOOLEAN, range \in UdpRanges \cup {<<>>} :
        Respond("settings", [NoParams EXCEPT !.range = range],
                settings(VLocal, isNone, moveOk, range))

VboxCreate ==
    \E ctorOk \in BOOLEAN :
        Respond("create", NoParams, vbox_create(VLocal, ctorOk))

VboxDelete ==
    \E id \in VmIds, deleteOk \in BOOLEAN :
        Respond("delete", [NoParams EXCEPT !.id = id],
                vbox_delete(VLocal, id, deleteOk))

VboxAllocateUdpPort ==
    \E id \in VmIds, busy \in HostBusy :
        Respond("allocate_udp_port", [NoParams EXCEPT !.id = id, !.busy = busy],
                allocate_udp_port(VLocal, id, busy))

VboxAddNio ==
    \E id \in NioVms, port \in VmPorts, type \in NioTypes, connectOk \in BOOLEAN :
        \E lport \in IF type = "nio_udp" THEN UdpPorts ELSE {0} :
            Respond("add_nio", [NoParams EXCEPT !.id = id, !.port = port,
                                                 !.type = type, !.lport = lport],
                    vbox_add_nio(VLocal, id, port, type, lport, connectOk))

VboxDeleteNio ==
    \E id \in NioVms, port \in VmPorts :
        Respond("delete_nio", [NoParams EXCEPT !.id = id, !.port = port],
                vbox_delete_nio(VLocal, id, port))

NextVbox ==
    \/ VboxReset
    \/ VboxSettings
    \/ VboxCreate
    \/ VboxDelete
    \/ VboxAllocateUdpPort
    \/ VboxAddNio
    \/ VboxDeleteNio

SpecVbox == Init /\ [][NextVbox]_vars

----------------------------------------------------------------------------
(* Packet capture on a FrameRelaySwitch port *)

UpperCase == <<"A", "B", "C", "D", "E", "F", "G", "H", "I", "J", "K", "L", "M",
               "N", "O", "P", "Q", "R", "S", "T", "U", "V", "W", "X", "Y", "Z">>
LowerCase == <<"a", "b", "c", "d", "e", "f", "g", "h", "i", "j", "k", "l", "m",
               "n", "o", "p", "q", "r", "s", "t", "u", "v", "w", "x", "y", "z">>

\* str.lower()
Lower(str) ==
    [i \in 1..Len(str) |->
        IF \E k \in 1..Len(UpperCase) : UpperCase[k] = str[i]
        THEN LowerCase[CHOOSE k \in 1..Len(UpperCase) : UpperCase[k] = str[i]]
        ELSE str[i]]

\* str.startswith(prefix)
StartsWith(str, prefix) ==
    Len(str) >= Len(prefix) /\ SubSeq(str, 1, Len(prefix)) = prefix

\* data_link_type.lower(), then data_link_type[4:] when it starts with "dlt_"
normalize_data_link_type(data_link_type) ==
    LET lowered == Lower(data_link_type)
    IN  IF StartsWith(lowered, <<"d", "l", "t", "_">>)
        THEN SubSeq(lowered, 5, Len(lowered))
        ELSE lowered

\* "{} {}".format(data_link_type, output_file)
FilterOptions(data_link_type, output_file) ==
    data_link_type \o <<" ">> \o output_file

\* the local state a NIO command is sent in: the switch state and the NIO filters
NioLocal(s, f) ==
    [instances |-> s.instances, devices |-> s.devices, objs |-> s.objs,
     sw |-> s.sw, nio_filters |-> f]

\* what a capture call leaves: the switch state, the NIO filters, how it
\* ended and the commands its NIO sent
CaptureOutcome(s, f, result, sends) ==
    [local |-> s, filters |-> f, result |-> result, ret |-> "none",
     sends |-> sends]

\* the capture call returns: its outcome becomes the state
ReturnCapture(op, args, out) ==
    /\ instances' = out.local.instances
    /\ devices' = out.local.devices
    /\ objs' = out.local.objs
    /\ sw' = out.local.sw
    /\ nio_filters' = out.filters
    /\ last' = [op |-> op, args |-> args, result |-> out.result,
                ret |-> out.ret, sends |-> out.sends]
    /\ UNCHANGED <<vboxVars, calls>>

\* nio.bind_filter("both", filter_name), its command acknowledged
bind_filter(f, nio, filter_name) ==
    [f EXCEPT ![nio].input.name = filter_name, ![nio].output.name = filter_name]

\* nio.setup_filter("both", options), its command acknowledged
setup_filter(f, nio, options) ==
    [f EXCEPT ![nio].input.options = options, ![nio].output.options = options]

\* nio.unbind_filter("both"), its command acknowledged
unbind_filter(f, nio) ==
    [f EXCEPT ![nio].input.name = "None", ![nio].output.name = "None"]

\* start_capture without its 'has already a filter applied' test
start_capture_rebind(s, f, self, port, output_file, data_link_type, makedirs, bindOk, setupOk) ==
    IF port \notin DOMAIN s.sw[self].nios
    THEN CaptureOutcome(s, f, "PortNotAllocated", <<>>)
    ELSE LET nio == s.sw[self].nios[port]
             dlt == normalize_data_link_type(data_link_type)
             bind == Sent(<<"nio", "bind_filter", nio, "both", "capture">>,
                          NioLocal(s, f))
             setup == Sent(<<"nio", "setup_filter", nio, "both",
                             FilterOptions(dlt, output_file)>>,
                           NioLocal(s, bind_filter(f, nio, "capture")))
         IN  IF makedirs = "OSError"
             THEN CaptureOutcome(s, f, "CaptureSetupError", <<>>)
             ELSE IF ~bindOk
             THEN CaptureOutcome(s, f, "ChannelError", bind)
             ELSE IF ~setupOk
             THEN CaptureOutcome(s, bind_filter(f, nio, "capture"),
                                 "ChannelError", bind \o setup)
             ELSE CaptureOutcome(s, setup_filter(bind_filter(f, nio, "capture"), nio,
                                                 FilterOptions(dlt, output_file)),
                                 "ok", bind \o setup)

\* self.start_capture(port, output_file, data_link_type)
start_capture(s, f, self, port, output_file, data_link_type, makedirs, bindOk, setupOk) ==
    IF port \notin DOMAIN s.sw[self].nios
    THEN CaptureOutcome(s, f, "PortNotAllocated", <<>>)
    ELSE LET nio == s.sw[self].nios[port]
             dlt == normalize_data_link_type(data_link_type)
             bind == Sent(<<"nio", "bind_filter", nio, "both", "capture">>,
                          NioLocal(s, f))
             setup == Sent(<<"nio", "setup_filter", nio, "both",
                             FilterOptions(dlt, output_file)>>,
                           NioLocal(s, bind_filter(f, nio, "capture")))
         IN  IF f[nio].input.name # "None" /\ f[nio].output.name # "None"
             THEN CaptureOutcome(s, f, "FilterAlreadyBound", <<>>)
             ELSE IF makedirs = "OSError"
             THEN CaptureOutcome(s, f, "CaptureSetupError", <<>>)
             ELSE IF ~bindOk
             THEN CaptureOutcome(s, f, "ChannelError", bind)
             ELSE IF ~setupOk
             THEN CaptureOutcome(s, bind_filter(f, nio, "capture"),
                                 "ChannelError", bind \o setup)
             ELSE CaptureOutcome(s, setup_filter(bind_filter(f, nio, "capture"), nio,
                                                 FilterOptions(dlt, output_file)),
                                 "ok", bind \o setup)

\* stop_capture refusing a port whose NIO has no filter bound
stop_capture_strict(s, f, self, port, unbindOk) ==
    IF port \notin DOMAIN s.sw[self].nios
    THEN CaptureOutcome(s, f, "PortNotAllocated", <<>>)
    ELSE LET nio == s.sw[self].nios[port]
             unbind == Sent(<<"nio", "unbind_filter", nio, "both">>, NioLocal(s, f))
         IN  IF f[nio].input.name = "None"
             THEN CaptureOutcome(s, f, "NoFilterBound", <<>>)
             ELSE IF ~unbindOk
             THEN CaptureOutcome(s, f, "ChannelError", unbind)
             ELSE CaptureOutcome(s, unbind_filter(f, nio), "ok", unbind)

\* self.stop_capture(port)
stop_capture(s, f, self, port, unbindOk) ==
    IF port \notin DOMAIN s.sw[self].nios
    THEN CaptureOutcome(s, f, "PortNotAllocated", <<>>)
    ELSE LET nio == s.sw[self].nios[port]
             unbind == Sent(<<"nio", "unbind_filter", nio, "both">>, NioLocal(s, f))
         IN  IF ~unbindOk
             THEN CaptureOutcome(s, f, "ChannelError", unbind)
             ELSE CaptureOutcome(s, unbind_filter(f, nio), "ok", unbind)

StartCapture ==
    \E self \in objs \cap Wired, port \in Ports, output_file \in OutputFiles,
       data_link_type \in DataLinkTypes, makedirs \in MakedirsOutcomes,
       bindOk \in BOOLEAN, setupOk \in BOOLEAN :
        ReturnCapture("start_capture", [NoArgs EXCEPT !.self = self, !.port1 = port],
                      start_capture(Local, nio_filters, self, port, output_file,
                                    data_link_type, makedirs, bindOk, setupOk))

StopCapture ==
    \E self \in objs \cap Wired, port \in Ports, unbindOk \in BOOLEAN :
        ReturnCapture("stop_capture", [NoArgs EXCEPT !.self = self, !.port1 = port],
                      stop_capture(Local, nio_filters, self, port, unbindOk))

\* cls._instances.clear() dropping the last id only
FrameRelaySwitch_reset_pop(s) ==
    Outcome([s EXCEPT !.instances = SubSeq(@, 1, Len(@) - 1)], "ok", "none", <<>>)

\* FrameRelaySwitch.reset()
FrameRelaySwitch_reset(s) ==
    Outcome([s EXCEPT !.instances = <<>>], "ok", "none", <<>>)

Reset ==
    Return("reset", NoArgs, FrameRelaySwitch_reset(Local))

NextReset ==
    \/ Create
    \/ Delete
    \/ Reset

SpecReset == Init /\ [][NextReset]_vars

\* map_vc and unmap_vc on circuits of several ingress DLCIs
MapCircuit ==
    \E self \in objs \cap Wired, p1 \in Ports, d1 \in CircuitDlcis, p2 \in Ports,
       d2 \in Dlcis, sendOk \in BOOLEAN :
        Return("map_vc", [NoArgs EXCEPT !.self = self, !.port1 = p1, !.dlci1 = d1,
                                         !.port2 = p2, !.dlci2 = d2],
               map_vc(Local, self, p1, d1, p2, d2, sendOk))

UnmapCircuit ==
    \E self \in objs \cap Wired, p1 \in Ports, d1 \in CircuitDlcis, p2 \in Ports,
       d2 \in Dlcis, sendOk \in BOOLEAN :
        Return("unmap_vc", [NoArgs EXCEPT !.self = self, !.port1 = p1, !.dlci1 = d1,
                                           !.port2 = p2, !.dlci2 = d2],
               unmap_vc(Local, self, p1, d1, p2, d2, sendOk))

NextCircuits ==
    \/ AddNio
    \/ RemoveNio
    \/ MapCircuit
    \/ UnmapCircuit

\* the state after FrameRelaySwitch(h1, "A") has built the first switch
InitCircuits ==
    LET none == [instances |-> <<>>, devices |-> [h \in Hypervisors |-> <<>>],
                 objs |-> {}, sw |-> [o \in Switches |-> NoSwitch]]
        out == FrameRelaySwitch_init(none, "s1", "h1", <<"A">>, TRUE)
    IN  /\ instances = out.local.instances
        /\ devices = out.local.devices
        /\ objs = out.local.objs
        /\ sw = out.local.sw
        /\ last = [op |-> "create", args |-> [NoArgs EXCEPT !.hypervisor = "h1",
                                                            !.name = <<"A">>],
                   result |-> out.result, ret |-> out.ret, sends |-> out.sends]
        /\ nio_filters = [n \in Nios |-> [input |-> NoFilter, output |-> NoFilter]]
        /\ calls = [t \in Threads |-> Idle]
        /\ vbox_instances = EmptyDict
        /\ vm_instances = {}
        /\ allocated_udp_ports = <<>>
        /\ udp_start_port_range = UdpStart
        /\ udp_end_port_range = UdpStart + RangeLen - 1
        /\ reply = [op |-> "init", params |-> NoParams, result |-> "ok", lport |-> 0]

SpecCircuits == InitCircuits /\ [][NextCircuits]_vars

NextCapture ==
    \/ Create
    \/ AddNio
    \/ RemoveNio
    \/ StartCapture
    \/ StopCapture

SpecCapture == Init /\ [][NextCapture]_vars

----------------------------------------------------------------------------
(* Two callers at once: the test of an id or port and its recording as steps *)

\* __init__ from the test on without self._instances.append(self._id)
FrameRelaySwitch_init_record_no_append(s, self, identifier, hypervisor, name, sendOk) ==
    LET qname == Quote(name)
        sends == Sent(<<"frsw", "create", qname>>, s)
    IN  IF ~sendOk
        THEN Outcome(s, "ChannelError", "none", sends)
        ELSE Outcome([s EXCEPT
                         !.devices[hypervisor] = Append(@, self),
                         !.objs = @ \cup {self},
                         !.sw[self] = [id |-> identifier, name |-> qname,
                                       hypervisor |-> hypervisor,
                                       nios |-> EmptyDict,
                                       mapping |-> EmptyDict]],
                     "ok", self, sends)

\* __init__ from the append on, identifier being what the loop's test found
FrameRelaySwitch_init_record(s, self, identifier, hypervisor, name, sendOk) ==
    LET s1 == [s EXCEPT !.instances = Append(@, identifier)]
        qname == Quote(name)
        sends == Sent(<<"frsw", "create", qname>>, s1)
    IN  IF ~sendOk
        THEN Outcome(s1, "ChannelError", "none", sends)
        ELSE Outcome([s1 EXCEPT
                         !.devices[hypervisor] = Append(@, self),
                         !.objs = @ \cup {self},
                         !.sw[self] = [id |-> identifier, name |-> qname,
                                       hypervisor |-> hypervisor,
                                       nios |-> EmptyDict,
                                       mapping |-> EmptyDict]],
                     "ok", self, sends)

\* the objects no thread is constructing and none has constructed
Unbuilt == Switches \ (objs \cup {calls[t].self : t \in Threads})

\* thread t enters FrameRelaySwitch(...) and runs the loop up to its test
\* 'identifier not in self._instances'
CreateTest(t) ==
    /\ calls[t].pc = "idle"
    /\ Unbuilt # {}
    /\ LET identifier == FindId(instances)
           self == CHOOSE o \in Unbuilt : TRUE
       IN  IF identifier = 0
           THEN /\ last' = [op |-> "create", args |-> NoArgs, result |-> "MaxInstances",
                            ret |-> "none", sends |-> <<>>]
                /\ UNCHANGED calls
           ELSE /\ calls' = [calls EXCEPT ![t] = [pc |-> "tested", kind |-> "create",
                                                  value |-> identifier, self |-> self]]
                /\ UNCHANGED last
    /\ UNCHANGED <<instances, devices, objs, sw, vboxVars, nio_filters>>

\* thread t records the id it found and runs the rest of __init__
CreateRecord(t) ==
    /\ calls[t].pc = "tested"
    /\ calls[t].kind = "create"
    /\ \E h \in Hypervisors, n \in Names, sendOk \in BOOLEAN :
          LET out == FrameRelaySwitch_init_record(Local, calls[t].self, calls[t].value,
                                                  h, n, sendOk)
          IN  /\ instances' = out.local.instances
              /\ devices' = out.local.devices
              /\ objs' = out.local.objs
              /\ sw' = out.local.sw
              /\ last' = [op |-> "create",
                          args |-> [NoArgs EXCEPT !.hypervisor = h, !.name = n],
                          result |-> out.result, ret |-> out.ret, sends |-> out.sends]
              /\ calls' = [calls EXCEPT ![t] = IF out.result = "ok"
                                               THEN [@ EXCEPT !.pc = "done"]
                                               ELSE Idle]
    /\ UNCHANGED <<vboxVars, nio_filters>>

\* thread t enters virtualbox.allocate_udp_port and runs find_unused_port,
\* on a host where no other program holds a port of the range
AllocateTest(t) ==
    /\ calls[t].pc = "idle"
    /\ \E vbox_id \in VmIds :
          LET busy == {}
              port == find_unused_port(udp_start_port_range, udp_end_port_range,
                                       allocated_udp_ports, busy)
              params == [NoParams EXCEPT !.id = vbox_id, !.busy = busy]
          IN  IF ~get_vbox_instance(VLocal, vbox_id)
              THEN /\ reply' = [op |-> "allocate_udp_port", params |-> params,
                                result |-> "NoSuchVM", lport |-> 0]
                   /\ UNCHANGED calls
              ELSE IF port = 0
              THEN /\ reply' = [op |-> "allocate_udp_port", params |-> params,
                                result |-> "NoPortAvailable", lport |-> 0]
                   /\ UNCHANGED calls
              ELSE /\ calls' = [calls EXCEPT ![t] = [pc |-> "tested", kind |-> "allocate",
                                                     value |-> port, self |-> "none"]]
                   /\ UNCHANGED reply
    /\ UNCHANGED <<frswVars, nio_filters, vbox_instances, vm_instances,
                   allocated_udp_ports, udp_start_port_range, udp_end_port_range>>

\* thread t appends the port it found and sends the response
AllocateRecord(t) ==
    /\ calls[t].pc = "tested"
    /\ calls[t].kind = "allocate"
    /\ allocated_udp_ports' = Append(allocated_udp_ports, calls[t].value)
    /\ reply' = [op |-> "allocate_udp_port", params |-> NoParams, result |-> "ok",
                 lport |-> calls[t].value]
    /\ calls' = [calls EXCEPT ![t].pc = "done"]
    /\ UNCHANGED <<frswVars, nio_filters, vbox_instances, vm_instances,
                   udp_start_port_range, udp_end_port_range>>

\* thread t's caller has its switch or its port and lets the thread go
CallReturns(t) ==
    /\ calls[t].pc = "done"
    /\ calls' = [calls EXCEPT ![t] = Idle]
    /\ UNCHANGED <<frswVars, vboxVars, nio_filters>>

CreateTests == \E t \in Threads : CreateTest(t)
CreateRecords == \E t \in Threads : CreateRecord(t)
AllocateTests == \E t \in Threads : AllocateTest(t)
AllocateRecords == \E t \in Threads : AllocateRecord(t)
CallsReturn == \E t \in Threads : CallReturns(t)

NextConcurrent ==
    \/ CreateTests
    \/ CreateRecords
    \/ AllocateTests
    \/ AllocateRecords
    \/ CallsReturn

\* the state after virtualbox.create has made the first VM
InitConcurrent ==
    LET none == [vbox_instances |-> EmptyDict, vm_instances |-> {},
                 allocated_udp_ports |-> <<>>, udp_start_port_range |-> UdpStart,
                 udp_end_port_range |-> UdpStart + RangeLen - 1]
        out == vbox_create(none, TRUE)
    IN  /\ vbox_instances = out.local.vbox_instances
        /\ vm_instances = out.local.vm_instances
        /\ allocated_udp_ports = out.local.allocated_udp_ports
        /\ udp_start_port_range = out.local.udp_start_port_range
        /\ udp_end_port_range = out.local.udp_end_port_range
        /\ reply = [op |-> "create", params |-> NoParams, result |-> out.result,
                    lport |-> out.lport]
        /\ calls = [t \in Threads |-> Idle]
        /\ nio_filters = [n \in Nios |-> [input |-> NoFilter, output |-> NoFilter]]
        /\ instances = <<>>
        /\ devices = [h \in Hypervisors |-> <<>>]
        /\ objs = {}
        /\ sw = [o \in Switches |-> NoSwitch]
        /\ last = [op |-> "init", args |-> NoArgs, result |-> "ok", ret |-> "none",
                   sends |-> <<>>]

SpecConcurrent == InitConcurrent /\ [][NextConcurrent]_vars

----------------------------------------------------------------------------
(* Properties *)

\* the switches present in a hypervisor's device list
Live == {o \in objs : \E h \in Hypervisors : InList(o, devices[h])}

\* every identifier of the range is held
PoolFull(list) == \A i \in 1..MaxInstances : InList(i, list)

\* the self of the call that made the step
Self == last'.args.self

\* C1: with creations and delete() calls only, no two switches present in a
\* hypervisor's device list have the same id, and every such switch's id is
\* in 1..MaxInstances (1..4096 in the source).
C1_LiveIdsDistinctInRange ==
    /\ \A a \in Live, b \in Live : a # b => sw[a].id # sw[b].id
    /\ \A a \in Live : sw[a].id \in 1..MaxInstances

\* two switches are live and the last call was a delete() whose send failed
C1_Witness ==
    /\ Cardinality(Live) = 2
    /\ last.op = "delete"
    /\ last.result = "ChannelError"

\* C2: when the send of a rename, delete(), map_vc or unmap_vc raises, the
\* name, the bindings, the circuit table, the id list and the device lists
\* are what they were before the call.
C2_FailedSendChangesNothing ==
    [][(/\ last'.op \in {"rename", "delete", "map_vc", "unmap_vc"}
        /\ last'.result = "ChannelError")
       => (/\ sw' = sw
           /\ instances' = instances
           /\ devices' = devices
           /\ objs' = objs)]_vars

\* an unmap_vc of a circuit that is in the table has just failed in send
C2_Witness ==
    /\ last.op = "unmap_vc"
    /\ last.result = "ChannelError"
    /\ <<last.args.port1, last.args.dlci1>> \in DOMAIN sw[last.args.self].mapping

\* C3: when 'frsw create' fails during construction, the id list is what it
\* was before the call and the device lists are unchanged.
C3_FailedCreateLeavesPool ==
    [][(last'.op = "create" /\ last'.result = "ChannelError")
       => (instances' = instances /\ devices' = devices /\ objs' = objs)]_vars

\* C4: a successful create, rename, delete, map_vc or unmap_vc sends exactly
\* one command, its own, and when it is sent the registry, the name, the
\* registry and id list, or the circuit table are still as before the call.
C4_OneCommandBeforeCommit ==
    [][(/\ last'.op \in {"create", "rename", "delete", "map_vc", "unmap_vc"}
        /\ last'.result = "ok")
       => (/\ Len(last'.sends) = 1
           /\ LET at == last'.sends[1].local
                  cmd == last'.sends[1].cmd
              IN  CASE last'.op = "create" ->
                         /\ cmd[2] = "create"
                         /\ at.devices = devices
                         /\ last'.ret \notin at.objs
                         /\ InList(last'.ret, devices'[last'.args.hypervisor])
                    [] last'.op = "rename" ->
                         /\ cmd[2] = "rename"
                         /\ at.sw[Self].name = sw[Self].name
                         /\ name_getter(sw'[Self].name) = last'.args.name
                    [] last'.op = "delete" ->
                         /\ cmd[2] = "delete"
                         /\ at.devices = devices
                         /\ at.instances = instances
                         /\ devices' # devices
                         /\ instances' # instances
                    [] last'.op = "map_vc" ->
                         /\ cmd[2] = "create_vc"
                         /\ at.sw[Self].mapping = sw[Self].mapping
                         /\ <<last'.args.port1, last'.args.dlci1>>
                                \in DOMAIN sw'[Self].mapping
                    [] last'.op = "unmap_vc" ->
                         /\ cmd[2] = "delete_vc"
                         /\ at.sw[Self].mapping = sw[Self].mapping
                         /\ <<last'.args.port1, last'.args.dlci1>>
                                \notin DOMAIN sw'[Self].mapping)]_vars

\* a map_vc between two different ports has just succeeded
C4_Witness ==
    /\ last.op = "map_vc"
    /\ last.result = "ok"
    /\ last.args.port1 # last.args.port2
    /\ Len(last.sends) = 1

\* C5: a construction when every id of the range is held fails with
\* 'Maximum number of instances reached', sends nothing and leaves the id
\* list and the device lists unchanged.
C5_FullPoolRejectsCreate ==
    [][(last'.op = "create" /\ PoolFull(instances))
       => (/\ last'.result = "MaxInstances"
           /\ last'.sends = <<>>
           /\ instances' = instances
           /\ devices' = devices
           /\ objs' = objs)]_vars

\* a construction has just been refused while a switch is live
C5_Witness ==
    /\ last.op = "create"
    /\ last.result = "MaxInstances"
    /\ PoolFull(instances)
    /\ Live # {}

\* C6: a successful construction receives the smallest id of 1..MaxInstances
\* that the id list did not hold before the call.
C6_LowestFreeId ==
    [][(last'.op = "create" /\ last'.result = "ok")
       => LET id == sw'[last'.ret].id
          IN  /\ id \in 1..MaxInstances
              /\ ~InList(id, instances)
              /\ \A j \in 1..(id - 1) : InList(j, instances)
              /\ InList(id, instances')]_vars

\* a new switch has just received id i >= 2, which a deleted switch had held
C6_Witness ==
    /\ last.op = "create"
    /\ last.result = "ok"
    /\ sw[last.ret].id >= 2
    /\ \E o \in objs \ Live : sw[o].id = sw[last.ret].id

C8_NoMutationAfterDelete ==
    [][\A o \in objs \ Live :
          /\ sw'[o] = sw[o]
          /\ Self = o => (instances' = instances /\ devices' = devices)]_vars

\* C9: add_nio on a port that has a NIO fails with the port-occupied error
\* and leaves every binding of every switch unchanged.
C9_AddNioOnBoundPortFails ==
    [][(last'.op = "add_nio" /\ last'.args.port1 \in DOMAIN sw[Self].nios)
       => (/\ last'.result = "PortNotFree"
           /\ sw' = sw)]_vars

\* an add_nio of another NIO on a bound port has just been refused
C9_Witness ==
    /\ last.op = "add_nio"
    /\ last.result = "PortNotFree"
    /\ sw[last.args.self].nios[last.args.port1] # last.args.nio

\* C10: remove_nio on an unbound port fails with the port-not-allocated error
\* and changes nothing; on a bound port it returns the NIO bound there, the
\* port is then absent and every other port's binding is unchanged.  A port's
\* binding is only ever set by a successful add_nio of that NIO on that port.
C10_RemoveNio ==
    [][/\ last'.op = "remove_nio" =>
            IF last'.args.port1 \notin DOMAIN sw[Self].nios
            THEN /\ last'.result = "PortNotAllocated"
                 /\ sw' = sw
            ELSE /\ last'.result = "ok"
                 /\ last'.ret = sw[Self].nios[last'.args.port1]
                 /\ ~has_port(Local', Self, last'.args.port1)
                 /\ \A q \in Ports \ {last'.args.port1} :
                       /\ q \in DOMAIN sw'[Self].nios <=> q \in DOMAIN sw[Self].nios
                       /\ q \in DOMAIN sw[Self].nios
                             => sw'[Self].nios[q] = sw[Self].nios[q]
                 /\ \A o \in Switches \ {Self} : sw'[o] = sw[o]
       /\ \A o \in Switches, p \in Ports :
            (/\ p \in DOMAIN sw'[o].nios
             /\ (p \notin DOMAIN sw[o].nios \/ sw[o].nios[p] # sw'[o].nios[p]))
            => (/\ last'.op = "add_nio"
                /\ last'.result = "ok"
                /\ Self = o
                /\ last'.args.port1 = p
                /\ last'.args.nio = sw'[o].nios[p])]_vars

\* remove_nio has just returned nioB from one port while the other stays bound
C10_Witness ==
    /\ last.op = "remove_nio"
    /\ last.result = "ok"
    /\ last.ret = "nioB"
    /\ DOMAIN sw[last.args.self].nios = Ports \ {last.args.port1}

\* the exceptions the module raises itself (DynamipsError), by message
DeviceErrors == {"MaxInstances", "PortNotFree", "PortNotAllocated",
                 "CircuitNotFound", "ChannelError"}

\* the ingress key and the egress pair of the call that made the step
Key == <<last'.args.port1, last'.args.dlci1>>
Egress == <<last'.args.port2, last'.args.dlci2>>

\* C11: map_vc and unmap_vc with the ingress or the egress port unbound fail
\* with the port-not-allocated error, send nothing and change nothing.
C11_CircuitNeedsBothPorts ==
    [][(/\ last'.op \in {"map_vc", "unmap_vc"}
        /\ \/ last'.args.port1 \notin DOMAIN sw[Self].nios
           \/ last'.args.port2 \notin DOMAIN sw[Self].nios)
       => (/\ last'.result = "PortNotAllocated"
           /\ last'.sends = <<>>
           /\ sw' = sw)]_vars

\* an unmap_vc of a circuit that is in the table was refused: its ingress
\* port is bound, its egress port is not
C11_Witness ==
    /\ last.op = "unmap_vc"
    /\ last.result = "PortNotAllocated"
    /\ last.args.port1 \in DOMAIN sw[last.args.self].nios
    /\ last.args.port2 \notin DOMAIN sw[last.args.self].nios
    /\ <<last.args.port1, last.args.dlci1>> \in DOMAIN sw[last.args.self].mapping

\* C12: a successful map_vc leaves its ingress key mapped to the egress pair
\* of this call, whatever the key was mapped to before, and no other entry
\* changed; with both ports bound, map_vc fails only when the send fails.
C12_RemapLastWriteWins ==
    [][last'.op = "map_vc" =>
         /\ last'.result = "ok" =>
               /\ DOMAIN sw'[Self].mapping = DOMAIN sw[Self].mapping \cup {Key}
               /\ sw'[Self].mapping[Key] = Egress
               /\ \A k \in DOMAIN sw[Self].mapping \ {Key} :
                     sw'[Self].mapping[k] = sw[Self].mapping[k]
         /\ (/\ last'.args.port1 \in DOMAIN sw[Self].nios
             /\ last'.args.port2 \in DOMAIN sw[Self].nios)
            => last'.result \in {"ok", "ChannelError"}]_vars

\* a map_vc has just replaced the egress pair of a key that was mapped
C12_Witness ==
    /\ last.op = "map_vc"
    /\ last.result = "ok"
    /\ LET before == last.sends[1].local.sw[last.args.self].mapping
           key == <<last.args.port1, last.args.dlci1>>
       IN  /\ key \in DOMAIN before
           /\ before[key] # <<last.args.port2, last.args.dlci2>>
           /\ sw[last.args.self].mapping[key] = <<last.args.port2, last.args.dlci2>>

\* C13: unmap_vc of a key that is not in the table, with both ports bound and
\* the send succeeding, fails with the module's own CircuitNotFound error and
\* leaves the table unchanged.
C13_UnmapAbsentKeyIsDeviceError ==
    [][(/\ last'.op = "unmap_vc"
        /\ last'.args.port1 \in DOMAIN sw[Self].nios
        /\ last'.args.port2 \in DOMAIN sw[Self].nios
        /\ Key \notin DOMAIN sw[Self].mapping
        /\ last'.result # "ChannelError")
       => (/\ last'.result = "CircuitNotFound"
           /\ last'.result \in DeviceErrors
           /\ sw' = sw)]_vars

\* C14: a successful map_vc(p1, d1, p2, d2) directly followed by a successful
\* unmap_vc(p1, d1, p2, d2) leaves no entry for (p1, d1), every other entry
\* as it was before the map, and the bindings as they were before the map.
C14_MapThenUnmap ==
    [][(/\ last.op = "map_vc" /\ last.result = "ok"
        /\ last'.op = "unmap_vc" /\ last'.result = "ok"
        /\ last'.args = last.args)
       => LET before == last.sends[1].local.sw[Self]
          IN  /\ Key \notin DOMAIN sw'[Self].mapping
              /\ DOMAIN sw'[Self].mapping = DOMAIN before.mapping \ {Key}
              /\ \A k \in DOMAIN sw'[Self].mapping :
                    sw'[Self].mapping[k] = before.mapping[k]
              /\ sw'[Self].nios = before.nios
              /\ {last'.args.port1, last'.args.port2} \subseteq DOMAIN sw'[Self].nios]_vars

\* an unmap_vc has just removed the entry its own four-tuple had mapped, the
\* other key stays mapped and both ports are bound
C14_Witness ==
    /\ last.op = "unmap_vc"
    /\ last.result = "ok"
    /\ last.args.port1 # last.args.port2
    /\ LET self == last.args.self
           key == <<last.args.port1, last.args.dlci1>>
       IN  /\ last.sends[1].local.sw[self].mapping[key]
                 = <<last.args.port2, last.args.dlci2>>
           /\ key \notin DOMAIN sw[self].mapping
           /\ DOMAIN sw[self].mapping # {}
           /\ DOMAIN sw[self].nios = Ports

\* no element occurs twice in list
NoDup(list) == \A i \in 1..Len(list), j \in 1..Len(list) : i # j => list[i] # list[j]

\* the ports of the current range that are not reserved
Unreserved == {p \in udp_start_port_range..udp_end_port_range :
                  ~InList(p, allocated_udp_ports)}

\* C15: the list of allocated UDP ports never holds a port twice, and a
\* successful allocate_udp_port returns a port that was not in the list.
C15_UdpPortReservedOnce ==
    [][/\ NoDup(allocated_udp_ports')
       /\ (reply'.op = "allocate_udp_port" /\ reply'.result = "ok")
          => (/\ ~InList(reply'.lport, allocated_udp_ports)
              /\ InList(reply'.lport, allocated_udp_ports'))]_vars

\* a port has just been allocated while another reserved port is the local
\* port of a NIO bound to a VM
C15_Witness ==
    /\ reply.op = "allocate_udp_port"
    /\ reply.result = "ok"
    /\ Len(allocated_udp_ports) >= 2
    /\ \E id \in DOMAIN vbox_instances : \E a \in DOMAIN vbox_instances[id].nios :
          /\ vbox_instances[id].nios[a].lport # reply.lport
          /\ InList(vbox_instances[id].nios[a].lport, allocated_udp_ports)

\* C16: with no port bound on the host, allocate_udp_port for a known VM
\* returns the lowest port of the range that is not reserved and appends it,
\* so an empty list fills as start, start+1, .., end; when every port of the
\* range is reserved it fails and leaves the list unchanged.  A successful
\* delete_nio of a UDP NIO takes its local port out of the list.
C16_LowestUnreservedPort ==
    [][/\ (/\ reply'.op = "allocate_udp_port"
           /\ reply'.result # "NoSuchVM"
           /\ reply'.params.busy = {})
          => IF Unreserved # {}
             THEN /\ reply'.result = "ok"
                  /\ reply'.lport \in Unreserved
                  /\ \A q \in Unreserved : reply'.lport <= q
                  /\ allocated_udp_ports' = Append(allocated_udp_ports, reply'.lport)
             ELSE /\ reply'.result = "NoPortAvailable"
                  /\ allocated_udp_ports' = allocated_udp_ports
       /\ (reply'.op = "delete_nio" /\ reply'.result = "ok")
          => LET nio == vbox_instances[reply'.params.id].nios[reply'.params.port]
             IN  ~InList(nio.lport, allocated_udp_ports')]_vars

\* with the range full and in the order start..end, a request has just failed
C16_Witness ==
    /\ reply.op = "allocate_udp_port"
    /\ reply.result = "NoPortAvailable"
    /\ reply.params.busy = {}
    /\ Len(allocated_udp_ports) = RangeLen
    /\ \A i \in 1..RangeLen : allocated_udp_ports[i] = udp_start_port_range + i - 1

\* C17: after a UDP NIO bound to a VM port is removed by virtualbox.delete_nio,
\* by virtualbox.delete of its VM or by virtualbox.reset, its local port is
\* not in the list of allocated UDP ports.
C17_TornDownNioReleasesPort ==
    [][(reply'.op \in {"delete_nio", "delete", "reset"} /\ reply'.result = "ok")
       => \A id \in DOMAIN vbox_instances : \A a \in DOMAIN vbox_instances[id].nios :
             (\/ id \notin DOMAIN vbox_instances'
              \/ a \notin DOMAIN vbox_instances'[id].nios)
             => ~InList(vbox_instances[id].nios[a].lport, allocated_udp_ports')]_vars

\* C18: a virtualbox.settings request leaves the list of allocated UDP ports
\* unchanged, and a successful allocate_udp_port returns a port of the range
\* in force that was not in the list.
C18_SettingsKeepReservedPorts ==
    [][/\ reply'.op = "settings" => allocated_udp_ports' = allocated_udp_ports
       /\ (reply'.op = "settings" /\ <<udp_start_port_range', udp_end_port_range'>>
                                        # <<udp_start_port_range, udp_end_port_range>>)
          => <<udp_start_port_range', udp_end_port_range'>> = reply'.params.range
       /\ reply'.op # "settings"
          => <<udp_start_port_range', udp_end_port_range'>>
                = <<udp_start_port_range, udp_end_port_range>>
       /\ (reply'.op = "allocate_udp_port" /\ reply'.result = "ok")
          => (/\ reply'.lport \in udp_start_port_range..udp_end_port_range
              /\ ~InList(reply'.lport, allocated_udp_ports))]_vars

\* a port of the new range has just been allocated while a port reserved
\* under the old range, now outside the range, is still reserved
C18_Witness ==
    /\ reply.op = "allocate_udp_port"
    /\ reply.result = "ok"
    /\ <<udp_start_port_range, udp_end_port_range>> = <<UdpStart + 1, UdpStart + RangeLen>>
    /\ InList(UdpStart, allocated_udp_ports)
    /\ reply.lport = UdpStart + RangeLen

----------------------------------------------------------------------------
(* Packet capture *)

Port == last'.args.port1
CaptureActive(f, nio) == f[nio].input.name # "None" /\ f[nio].output.name # "None"
NoCapture(f, nio) == f[nio].input.name = "None" /\ f[nio].output.name = "None"

\* C19: start_capture on a port with no NIO fails with the port-not-allocated
\* error; start_capture on a port whose NIO has a filter bound on both
\* directions, and so a start_capture that directly follows a successful
\* start_capture on the same port, fails with the filter-already-bound error;
\* in both cases no command is sent and no NIO filter changes.
C19_StartCaptureRefused ==
    [][last'.op = "start_capture" =>
         /\ Port \notin DOMAIN sw[Self].nios
            => (/\ last'.result = "PortNotAllocated"
                /\ last'.sends = <<>>
                /\ nio_filters' = nio_filters)
         /\ (/\ Port \in DOMAIN sw[Self].nios
             /\ CaptureActive(nio_filters, sw[Self].nios[Port]))
            => (/\ last'.result = "FilterAlreadyBound"
                /\ last'.sends = <<>>
                /\ nio_filters' = nio_filters)
         /\ (/\ last.op = "start_capture"
             /\ last.result = "ok"
             /\ last.args = last'.args)
            => (/\ last'.result = "FilterAlreadyBound"
                /\ last'.sends = <<>>
                /\ nio_filters' = nio_filters)]_vars

\* a start_capture was refused on a port whose NIO carries the capture filter
\* an earlier start_capture bound and configured
C19_Witness ==
    /\ last.op = "start_capture"
    /\ last.result = "FilterAlreadyBound"
    /\ last.args.port1 \in DOMAIN sw[last.args.self].nios
    /\ LET nio == sw[last.args.self].nios[last.args.port1]
       IN  /\ nio_filters[nio].input = nio_filters[nio].output
           /\ nio_filters[nio].input.name = "capture"
           /\ nio_filters[nio].input.options # <<>>

\* C20 as stated: stop_capture fails only when the port has no NIO, and on an
\* allocated port it leaves the NIO with no filter.
C20_StopFailsOnlyWithoutNio ==
    [][last'.op = "stop_capture" =>
         /\ last'.result # "ok" => Port \notin DOMAIN sw[Self].nios
         /\ Port \in DOMAIN sw[Self].nios
            => NoCapture(nio_filters', sw[Self].nios[Port])]_vars

\* C20: stop_capture on a port with no NIO fails with the port-not-allocated
\* error and sends nothing; on an allocated port it sends the unbind command
\* whether or not a filter is bound and fails only when that command fails,
\* leaving the filters as they were; when the command succeeds the NIO has no
\* filter in either direction and no other NIO changed.  A start_capture on a
\* port whose NIO has no filter is never refused as already bound: it fails
\* only on the captures directory or on a command, and binds the capture
\* filter when it succeeds.  Neither call changes the port bindings.
C20_StopCaptureIdempotent ==
    [][/\ last'.op = "stop_capture" =>
            /\ Port \notin DOMAIN sw[Self].nios
               => (/\ last'.result = "PortNotAllocated"
                   /\ last'.sends = <<>>
                   /\ nio_filters' = nio_filters)
            /\ Port \in DOMAIN sw[Self].nios
               => LET nio == sw[Self].nios[Port]
                  IN  /\ last'.result \in {"ok", "ChannelError"}
                      /\ Len(last'.sends) = 1
                      /\ last'.sends[1].cmd = <<"nio", "unbind_filter", nio, "both">>
                      /\ last'.result = "ChannelError" => nio_filters' = nio_filters
                      /\ last'.result = "ok"
                         => (/\ NoCapture(nio_filters', nio)
                             /\ \A n \in Nios \ {nio} :
                                   nio_filters'[n] = nio_filters[n])
       /\ (/\ last'.op = "start_capture"
           /\ Port \in DOMAIN sw[Self].nios
           /\ NoCapture(nio_filters, sw[Self].nios[Port]))
          => (/\ last'.result \in {"ok", "CaptureSetupError", "ChannelError"}
              /\ last'.result = "ok"
                 => CaptureActive(nio_filters', sw[Self].nios[Port]))
       /\ last'.op \in {"start_capture", "stop_capture"} => sw' = sw]_vars

\* a stop_capture has succeeded on a port whose NIO had no filter bound when
\* the unbind command was sent, after an earlier capture on that NIO had been
\* started and stopped
C20_Witness ==
    /\ last.op = "stop_capture"
    /\ last.result = "ok"
    /\ last.args.port1 \in DOMAIN sw[last.args.self].nios
    /\ LET nio == sw[last.args.self].nios[last.args.port1]
       IN  /\ NoCapture(last.sends[1].local.nio_filters, nio)
           /\ last.sends[1].local.nio_filters[nio].input.options # <<>>
           /\ NoCapture(nio_filters, nio)

----------------------------------------------------------------------------
(* Virtual circuits: what unmap_vc removes, what remove_nio leaves *)

\* C21: a successful unmap_vc whose ingress key is mapped to an egress pair
\* other than the one the call names leaves that entry in the table.
C21_UnmapMatchesWholeTuple ==
    [][(/\ last'.op = "unmap_vc"
        /\ last'.result = "ok"
        /\ Key \in DOMAIN sw[Self].mapping
        /\ sw[Self].mapping[Key] # Egress)
       => (/\ Key \in DOMAIN sw'[Self].mapping
           /\ sw'[Self].mapping[Key] = sw[Self].mapping[Key])]_vars

\* C22: map_vc and unmap_vc leave every table entry with another ingress key
\* as it was, add no entry under another key, and leave the port bindings and
\* the other switches as they were.
C22_OtherCircuitsUntouched ==
    [][last'.op \in {"map_vc", "unmap_vc"} =>
         /\ DOMAIN sw'[Self].mapping \ {Key} = DOMAIN sw[Self].mapping \ {Key}
         /\ \A k \in DOMAIN sw[Self].mapping \ {Key} :
               sw'[Self].mapping[k] = sw[Self].mapping[k]
         /\ sw'[Self].nios = sw[Self].nios
         /\ \A o \in Switches \ {Self} : sw'[o] = sw[o]]_vars

\* an unmap_vc has removed a circuit and left one on the same ingress port
\* with another DLCI and one from the other port to the same egress port
C22_Witness ==
    /\ last.op = "unmap_vc"
    /\ last.result = "ok"
    /\ LET self == last.args.self
           key == <<last.args.port1, last.args.dlci1>>
           table == sw[self].mapping
       IN  /\ key \notin DOMAIN table
           /\ \E k \in DOMAIN table : k[1] = key[1] /\ k[2] # key[2]
           /\ \E k \in DOMAIN table : k[1] # key[1] /\ table[k][1] = last.args.port2
           /\ last.args.port1 # last.args.port2

\* C23: in every state each entry of a switch's table has its ingress port
\* and its egress port bound to a NIO.
C23_CircuitsReferAllocatedPorts ==
    \A o \in objs : \A k \in DOMAIN sw[o].mapping :
        /\ k[1] \in DOMAIN sw[o].nios
        /\ sw[o].mapping[k][1] \in DOMAIN sw[o].nios

----------------------------------------------------------------------------
(* FrameRelaySwitch.reset() *)

LiveIds == {sw[o].id : o \in Live}

\* the live switches hold pairwise distinct ids, each of them in _instances
ConsistentPool ==
    /\ \A o1 \in Live, o2 \in Live : o1 # o2 => sw[o1].id # sw[o2].id
    /\ \A o \in Live : InList(sw[o].id, instances)

\* C24 as stated: with reset() among the calls, a successful create never
\* returns the id of a live switch, and the delete of a live switch whose
\* command is acknowledged completes and leaves the ids of the other live
\* switches held.
C24_ResetKeepsIdsApart ==
    [][/\ (last'.op = "create" /\ last'.result = "ok")
          => sw'[last'.ret].id \notin LiveIds
       /\ (last'.op = "delete" /\ Self \in Live /\ last'.result # "ChannelError")
          => (/\ last'.result = "ok"
              /\ \A o \in Live \ {Self} : InList(sw[o].id, instances'))]_vars

\* C24: reset() empties _instances and changes nothing else.  Every call
\* other than a reset() made while some switch is live keeps the live
\* switches' ids pairwise distinct and held; from such a state a successful
\* create never returns the id of a live switch, and the delete of a live
\* switch whose command is acknowledged completes and leaves the ids of the
\* other live switches held.
C24_ResetWithNoLiveSwitch ==
    [][/\ last'.op = "reset"
          => (instances' = <<>> /\ devices' = devices /\ objs' = objs /\ sw' = sw)
       /\ (ConsistentPool /\ ~(last'.op = "reset" /\ Live # {}))
          => ConsistentPool'
       /\ (ConsistentPool /\ last'.op = "create" /\ last'.result = "ok")
          => sw'[last'.ret].id \notin LiveIds
       /\ (/\ ConsistentPool
           /\ last'.op = "delete" /\ Self \in Live /\ last'.result # "ChannelError")
          => (/\ last'.result = "ok"
              /\ \A o \in Live \ {Self} : InList(sw[o].id, instances'))]_vars

\* reset() has just been called while no switch is live, after a switch that
\* was given id 2 (id 1 was held by then) has been created and deleted
C24_Witness ==
    /\ last.op = "reset"
    /\ Live = {}
    /\ instances = <<>>
    /\ \E o \in objs : sw[o].id = 2
    /\ ConsistentPool

----------------------------------------------------------------------------
(* Concurrent callers *)

\* what thread t's kind of call records its value in
Recorded(t) == IF calls[t].kind = "create" THEN instances ELSE allocated_udp_ports

\* no id and no port is recorded twice; a value a thread has found and not
\* yet recorded is not recorded and is not the value another thread has
\* found; a value a thread has obtained is recorded
Sound ==
    /\ NoDup(instances)
    /\ NoDup(allocated_udp_ports)
    /\ \A t \in Threads :
          /\ calls[t].pc = "tested" => ~InList(calls[t].value, Recorded(t))
          /\ calls[t].pc = "done" => InList(calls[t].value, Recorded(t))
    /\ \A t \in Threads, u \in Threads :
          (/\ t # u
           /\ calls[t].pc = "tested"
           /\ calls[u].pc = "tested"
           /\ calls[t].kind = calls[u].kind)
          => calls[t].value # calls[u].value

\* thread t makes its test while another thread's call of the same kind is
\* between its test and its record
OverlappingTest ==
    \E t \in Threads, u \in Threads :
        /\ t # u
        /\ calls[t].pc = "idle"
        /\ calls'[t].pc = "tested"
        /\ calls[u].pc = "tested"
        /\ calls[u].kind = calls'[t].kind

----------------------------------------------------------------------------
(* The VirtualBox registry *)

Registry == DOMAIN vbox_instances

\* C26: a virtualbox.create that fails leaves the registry as it was and one
\* that succeeds adds one VM under an id that was not in it; a
\* virtualbox.delete removes its VM's entry, and nothing else, when the VM's
\* delete succeeded, and otherwise (the delete failed, or the id is unknown)
\* leaves the registry as it was and reports an error; a virtualbox.reset
\* that completes leaves the registry, the list of allocated UDP ports and
\* the VM id pool empty; no other request adds or removes a VM.
C26_RegistryHoldsCreatedVms ==
    [][/\ reply'.op = "create" =>
            IF reply'.result = "ok"
            THEN \E id \in VmIds \ Registry :
                    /\ DOMAIN vbox_instances' = Registry \cup {id}
                    /\ \A k \in Registry : vbox_instances'[k] = vbox_instances[k]
            ELSE vbox_instances' = vbox_instances
       /\ reply'.op = "delete" =>
            /\ reply'.params.id \notin Registry => reply'.result = "NoSuchVM"
            /\ IF reply'.result = "ok"
               THEN /\ reply'.params.id \in Registry
                    /\ vbox_instances' = DictDel(vbox_instances, reply'.params.id)
               ELSE /\ vbox_instances' = vbox_instances
                    /\ reply'.result \in {"NoSuchVM", "VirtualBoxError"}
       /\ (reply'.op = "reset" /\ reply'.result = "ok") =>
            /\ vbox_instances' = EmptyDict
            /\ allocated_udp_ports' = <<>>
            /\ vm_instances' = {}
       /\ reply'.op \notin {"create", "delete", "reset"} =>
            DOMAIN vbox_instances' = Registry]_vars

\* a virtualbox.delete whose VM's delete failed has left the VM, with the NIO
\* bound to it, in the registry
C26_Witness ==
    /\ reply.op = "delete"
    /\ reply.result = "VirtualBoxError"
    /\ reply.params.id \in Registry
    /\ vbox_instances[reply.params.id].nios # EmptyDict
    /\ Registry = vm_instances

====
